---- MODULE Spec2Model ----
(***************************************************************************)
(* Ticketing backend (scripts/main.py, scripts/model.py): users, events    *)
(* and the ticket lifecycle handlers buy / reserve / pay / use / cancel.   *)
(* Each request handler runs to completion as one step (requests are       *)
(* served one at a time in specification Spec).                            *)
(***************************************************************************)
EXTENDS Integers, Sequences, FiniteSets, TLC

\* ---------------------------------------------------------------- bounds
MaxUsers == 1
MaxEvents == 1
MaxTickets == 2

\* ------------------------------------------------- model.py: TicketStatus
PURCHASED == "PURCHASED"
RESERVED == "RESERVED"
CANCELED == "CANCELED"
USED == "USED"
TicketStatus == {PURCHASED, RESERVED, CANCELED, USED}

\* ------------------------------------------------------- request inputs
Usernames == {"", "Pepito"}
EventNames == {"", "TEST_EVENT"}
UserIds == 0..MaxUsers
EventIds == 0..MaxEvents
TicketIds == 0..MaxTickets

VARIABLES
  users,      \* table user:   id -> [id, username, password]
  events,     \* table event:  id -> [id, name, price]
  tickets,    \* table ticket: id -> [id, user_id, event_id, status]
  request,    \* the request being answered: [op, user_id, event_id, ticket_id]
  response,   \* its JSONResponse: [status_code, content]
  sessions    \* requests served concurrently: proc -> its SessionDep and position

vars == <<users, events, tickets, request, response, sessions>>

\* the requests that may be in flight at the same time
Procs == {1, 2}
\* a worker with no request in flight
Idle == [pc |-> "idle"]

\* ------------------------------------------------- store (SessionDep)
\* session.get(Table, id): the row, or None when the primary key is absent
None == [id |-> -1]
session_get(table, id) == IF id \in DOMAIN table THEN table[id] ELSE None

\* session.add(row); commit(); refresh(row): the store assigns the next
\* primary key (rows are never deleted, so keys are 1..n)
next_id(table) == Cardinality(DOMAIN table) + 1
session_add(table, row) ==
  LET id == next_id(table)
      stored == [row EXCEPT !.id = id]
  IN  [i \in DOMAIN table \cup {id} |-> IF i = id THEN stored ELSE table[i]]

\* commit of a mutated, already persistent row
session_commit(table, row) == [table EXCEPT ![row.id] = row]

\* ------------------------------------------------------------ transport
JSONResponse(status_code, content) ==
  [status_code |-> status_code, content |-> content]
Message(text) == [message |-> text]
Request(op, user_id, event_id, ticket_id) ==
  [op |-> op, user_id |-> user_id, event_id |-> event_id, ticket_id |-> ticket_id]
\* a POST carrying a JSON body (create_user, create_event)
RequestBody(op, body) ==
  [op |-> op, user_id |-> 0, event_id |-> 0, ticket_id |-> 0, body |-> body]

\* model.py: Ticket.__init__ (id is None until the store assigns it)
Ticket(user_id, event_id, status) ==
  [id |-> 0, user_id |-> user_id, event_id |-> event_id, status |-> status]

\* Result of a handler on the ticket table: the table after the handler
\* returns and the response it returns.
Result(table, resp) == [table |-> table, response |-> resp]

\* --------------------------------------------------- main.py: use_ticket
\* variants of use_ticket with one guard or assignment changed
use_ticket_uses_canceled(table, ticket_id) ==
  LET ticket == session_get(table, ticket_id) IN
  IF ticket = None
  THEN Result(table, JSONResponse(404, Message("Ticket not found")))
  ELSE IF ticket.status = RESERVED
  THEN Result(table, JSONResponse(402, Message("Ticket must be paid to be used")))
  ELSE IF ticket.status = USED
  THEN Result(table, JSONResponse(400, Message("Ticket is already used")))
  ELSE LET used == [ticket EXCEPT !.status = USED]
       IN  Result(session_commit(table, used), JSONResponse(200, used))

use_ticket_reserved_400(table, ticket_id) ==
  LET ticket == session_get(table, ticket_id) IN
  IF ticket = None
  THEN Result(table, JSONResponse(404, Message("Ticket not found")))
  ELSE IF ticket.status = RESERVED
  THEN Result(table, JSONResponse(400, Message("Ticket must be paid to be used")))
  ELSE IF ticket.status = USED
  THEN Result(table, JSONResponse(400, Message("Ticket is already used")))
  ELSE IF ticket.status = CANCELED
  THEN Result(table, JSONResponse(400, Message("Ticket is canceled, cannot be used")))
  ELSE LET used == [ticket EXCEPT !.status = USED]
       IN  Result(session_commit(table, used), JSONResponse(200, used))

use_ticket_lowercase(table, ticket_id) ==
  LET ticket == session_get(table, ticket_id) IN
  IF ticket = None
  THEN Result(table, JSONResponse(404, Message("Ticket not found")))
  ELSE IF ticket.status = RESERVED
  THEN Result(table, JSONResponse(402, Message("Ticket must be paid to be used")))
  ELSE IF ticket.status = USED
  THEN Result(table, JSONResponse(400, Message("Ticket is already used")))
  ELSE IF ticket.status = CANCELED
  THEN Result(table, JSONResponse(400, Message("Ticket is canceled, cannot be used")))
  ELSE LET used == [ticket EXCEPT !.status = "used"]
       IN  Result(session_commit(table, used), JSONResponse(200, used))

use_ticket(table, ticket_id) ==
  LET ticket == session_get(table, ticket_id) IN
  IF ticket = None
  THEN Result(table, JSONResponse(404, Message("Ticket not found")))
  ELSE IF ticket.status = RESERVED
  THEN Result(table, JSONResponse(402, Message("Ticket must be paid to be used")))
  ELSE IF ticket.status = USED
  THEN Result(table, JSONResponse(400, Message("Ticket is already used")))
  ELSE IF ticket.status = CANCELED
  THEN Result(table, JSONResponse(400, Message("Ticket is canceled, cannot be used")))
  ELSE LET used == [ticket EXCEPT !.status = USED]
       IN  Result(session_commit(table, used), JSONResponse(200, used))

\* --------------------------------------------------- main.py: buy_ticket
\* variant of buy_ticket creating the ticket unpaid
buy_ticket_unpaid(users_, events_, table, user_id, event_id) ==
  LET user == session_get(users_, user_id)
      event == session_get(events_, event_id) IN
  IF user = None \/ event = None
  THEN Result(table, JSONResponse(404, Message("User or event not found")))
  ELSE LET ticket == Ticket(user_id, event_id, RESERVED)
           after == session_add(table, ticket)
       IN  Result(after, JSONResponse(201, after[next_id(table)]))

buy_ticket(users_, events_, table, user_id, event_id) ==
  LET user == session_get(users_, user_id)
      event == session_get(events_, event_id) IN
  IF user = None \/ event = None
  THEN Result(table, JSONResponse(404, Message("User or event not found")))
  ELSE LET ticket == Ticket(user_id, event_id, PURCHASED)
           after == session_add(table, ticket)
       IN  Result(after, JSONResponse(201, after[next_id(table)]))

\* ----------------------------------------------- main.py: reserve_ticket
\* variant of reserve_ticket with "and" for "or" in the existence check
reserve_ticket_and(users_, events_, table, user_id, event_id) ==
  LET user == session_get(users_, user_id)
      event == session_get(events_, event_id) IN
  IF user = None /\ event = None
  THEN Result(table, JSONResponse(404, Message("User or event not found")))
  ELSE LET ticket == Ticket(user_id, event_id, RESERVED)
           after == session_add(table, ticket)
       IN  Result(after, JSONResponse(200, after[next_id(table)]))

reserve_ticket(users_, events_, table, user_id, event_id) ==
  LET user == session_get(users_, user_id)
      event == session_get(events_, event_id) IN
  IF user = None \/ event = None
  THEN Result(table, JSONResponse(404, Message("User or event not found")))
  ELSE LET ticket == Ticket(user_id, event_id, RESERVED)
           after == session_add(table, ticket)
       IN  Result(after, JSONResponse(200, after[next_id(table)]))

\* --------------------------------------------------- main.py: pay_ticket
\* variants of pay_ticket with one guard changed
pay_ticket_rebuilds_ticket(table, ticket_id) ==
  LET ticket == session_get(table, ticket_id) IN
  IF ticket = None
  THEN Result(table, JSONResponse(404, Message("Ticket not found")))
  ELSE IF ticket.status = PURCHASED
  THEN Result(table, JSONResponse(400, Message("Ticket is already paid for")))
  ELSE IF ticket.status = USED
  THEN Result(table, JSONResponse(400, Message("Ticket is already used")))
  ELSE IF ticket.status = CANCELED
  THEN Result(table, JSONResponse(400, Message("Ticket is canceled, cannot be paid")))
  ELSE LET paid == [Ticket(ticket_id, ticket.event_id, PURCHASED) EXCEPT !.id = ticket.id]
       IN  Result(session_commit(table, paid), JSONResponse(200, paid))

pay_ticket_idempotent(table, ticket_id) ==
  LET ticket == session_get(table, ticket_id) IN
  IF ticket = None
  THEN Result(table, JSONResponse(404, Message("Ticket not found")))
  ELSE IF ticket.status = USED
  THEN Result(table, JSONResponse(400, Message("Ticket is already used")))
  ELSE IF ticket.status = CANCELED
  THEN Result(table, JSONResponse(400, Message("Ticket is canceled, cannot be paid")))
  ELSE LET paid == [ticket EXCEPT !.status = PURCHASED]
       IN  Result(session_commit(table, paid), JSONResponse(200, paid))

pay_ticket_pays_canceled(table, ticket_id) ==
  LET ticket == session_get(table, ticket_id) IN
  IF ticket = None
  THEN Result(table, JSONResponse(404, Message("Ticket not found")))
  ELSE IF ticket.status = PURCHASED
  THEN Result(table, JSONResponse(400, Message("Ticket is already paid for")))
  ELSE IF ticket.status = USED
  THEN Result(table, JSONResponse(400, Message("Ticket is already used")))
  ELSE LET paid == [ticket EXCEPT !.status = PURCHASED]
       IN  Result(session_commit(table, paid), JSONResponse(200, paid))

pay_ticket_missing_400(table, ticket_id) ==
  LET ticket == session_get(table, ticket_id) IN
  IF ticket = None
  THEN Result(table, JSONResponse(400, Message("Ticket not found")))
  ELSE IF ticket.status = PURCHASED
  THEN Result(table, JSONResponse(400, Message("Ticket is already paid for")))
  ELSE IF ticket.status = USED
  THEN Result(table, JSONResponse(400, Message("Ticket is already used")))
  ELSE IF ticket.status = CANCELED
  THEN Result(table, JSONResponse(400, Message("Ticket is canceled, cannot be paid")))
  ELSE LET paid == [ticket EXCEPT !.status = PURCHASED]
       IN  Result(session_commit(table, paid), JSONResponse(200, paid))

pay_ticket(table, ticket_id) ==
  LET ticket == session_get(table, ticket_id) IN
  IF ticket = None
  THEN Result(table, JSONResponse(404, Message("Ticket not found")))
  ELSE IF ticket.status = PURCHASED
  THEN Result(table, JSONResponse(400, Message("Ticket is already paid for")))
  ELSE IF ticket.status = USED
  THEN Result(table, JSONResponse(400, Message("Ticket is already used")))
  ELSE IF ticket.status = CANCELED
  THEN Result(table, JSONResponse(400, Message("Ticket is canceled, cannot be paid")))
  ELSE LET paid == [ticket EXCEPT !.status = PURCHASED]
       IN  Result(session_commit(table, paid), JSONResponse(200, paid))

\* ------------------------------------------------ main.py: cancel_ticket
\* variants of cancel_ticket with one guard changed
cancel_ticket_deletes_row(table, ticket_id) ==
  LET ticket == session_get(table, ticket_id) IN
  IF ticket = None
  THEN Result(table, JSONResponse(404, Message("Ticket not found")))
  ELSE IF ticket.status = CANCELED
  THEN Result(table, JSONResponse(400, Message("Ticket is already canceled")))
  ELSE IF ticket.status = USED
  THEN Result(table, JSONResponse(400, Message("Ticket is already used, cannot be canceled")))
  ELSE LET canceled == [ticket EXCEPT !.status = CANCELED]
       IN  Result([i \in DOMAIN table \ {ticket_id} |-> table[i]],
                  JSONResponse(200, canceled))

cancel_ticket_writes_before_check(table, ticket_id) ==
  LET ticket == session_get(table, ticket_id) IN
  IF ticket = None
  THEN Result(table, JSONResponse(404, Message("Ticket not found")))
  ELSE LET canceled == [ticket EXCEPT !.status = CANCELED] IN
  IF ticket.status = CANCELED
  THEN Result(table, JSONResponse(400, Message("Ticket is already canceled")))
  ELSE IF ticket.status = USED
  THEN Result(session_commit(table, canceled),
              JSONResponse(400, Message("Ticket is already used, cannot be canceled")))
  ELSE Result(session_commit(table, canceled), JSONResponse(200, canceled))

cancel_ticket_cancels_used(table, ticket_id) ==
  LET ticket == session_get(table, ticket_id) IN
  IF ticket = None
  THEN Result(table, JSONResponse(404, Message("Ticket not found")))
  ELSE IF ticket.status = CANCELED
  THEN Result(table, JSONResponse(400, Message("Ticket is already canceled")))
  ELSE LET canceled == [ticket EXCEPT !.status = CANCELED]
       IN  Result(session_commit(table, canceled), JSONResponse(200, canceled))

cancel_ticket_rejects_reserved(table, ticket_id) ==
  LET ticket == session_get(table, ticket_id) IN
  IF ticket = None
  THEN Result(table, JSONResponse(404, Message("Ticket not found")))
  ELSE IF ticket.status = CANCELED
  THEN Result(table, JSONResponse(400, Message("Ticket is already canceled")))
  ELSE IF ticket.status = USED
  THEN Result(table, JSONResponse(400, Message("Ticket is already used, cannot be canceled")))
  ELSE IF ticket.status = RESERVED
  THEN Result(table, JSONResponse(400, Message("Ticket is not paid")))
  ELSE LET canceled == [ticket EXCEPT !.status = CANCELED]
       IN  Result(session_commit(table, canceled), JSONResponse(200, canceled))

cancel_ticket(table, ticket_id) ==
  LET ticket == session_get(table, ticket_id) IN
  IF ticket = None
  THEN Result(table, JSONResponse(404, Message("Ticket not found")))
  ELSE IF ticket.status = CANCELED
  THEN Result(table, JSONResponse(400, Message("Ticket is already canceled")))
  ELSE IF ticket.status = USED
  THEN Result(table, JSONResponse(400, Message("Ticket is already used, cannot be canceled")))
  ELSE LET canceled == [ticket EXCEPT !.status = CANCELED]
       IN  Result(session_commit(table, canceled), JSONResponse(200, canceled))

\* -------------------------------------------------- main.py: create_user
create_user(table, username, password) ==
  IF username = ""
  THEN Result(table, JSONResponse(400, Message("Invalid username")))
  ELSE LET user == [id |-> 0, username |-> username, password |-> password]
           after == session_add(table, user)
       IN  Result(after, JSONResponse(201, after[next_id(table)]))

\* ------------------------------------------------- main.py: create_event
create_event_unvalidated(table, name, price) ==
  LET event == [id |-> 0, name |-> name, price |-> price]
      after == session_add(table, event)
  IN  Result(after, JSONResponse(201, after[next_id(table)]))

create_event(table, name, price) ==
  IF name = ""
  THEN Result(table, JSONResponse(400, Message("Invalid event name")))
  ELSE LET event == [id |-> 0, name |-> name, price |-> price]
           after == session_add(table, event)
       IN  Result(after, JSONResponse(201, after[next_id(table)]))

\* ----------------------------------------------------- main.py: get_user
get_user_zero_based(table, user_id) ==
  LET user == session_get(table, user_id - 1) IN
  IF user = None
  THEN Result(table, JSONResponse(404, Message("User not found")))
  ELSE Result(table, JSONResponse(200, user))

get_user(table, user_id) ==
  LET user == session_get(table, user_id) IN
  IF user = None
  THEN Result(table, JSONResponse(404, Message("User not found")))
  ELSE Result(table, JSONResponse(200, user))

\* ---------------------------------------------------- main.py: get_event
get_event(table, event_id) ==
  LET event == session_get(table, event_id) IN
  IF event = None
  THEN Result(table, JSONResponse(404, Message("Event not found")))
  ELSE Result(table, JSONResponse(200, event))

\* ---------------------------------------------------- main.py: read_root
read_root == JSONResponse(200, Message("Ticket API is working!"))

\* ================================================================ actions
Init ==
  /\ users = <<>>
  /\ events = <<>>
  /\ tickets = <<>>
  /\ request = Request("startup", 0, 0, 0)
  /\ response = JSONResponse(0, Message(""))
  /\ sessions = [p \in Procs |-> Idle]

CreateUser ==
  \E username \in Usernames :
    LET r == create_user(users, username, "1234") IN
    /\ Cardinality(DOMAIN r.table) <= MaxUsers
    /\ users' = r.table
    /\ response' = r.response
    /\ request' = RequestBody("create_user", [username |-> username, password |-> "1234"])
    /\ UNCHANGED <<events, tickets, sessions>>

CreateEvent ==
  \E name \in EventNames :
    LET r == create_event(events, name, 100) IN
    /\ Cardinality(DOMAIN r.table) <= MaxEvents
    /\ events' = r.table
    /\ response' = r.response
    /\ request' = RequestBody("create_event", [name |-> name, price |-> 100])
    /\ UNCHANGED <<users, tickets, sessions>>

BuyTicket ==
  \E user_id \in UserIds, event_id \in EventIds :
    LET r == buy_ticket(users, events, tickets, user_id, event_id) IN
    /\ Cardinality(DOMAIN r.table) <= MaxTickets
    /\ tickets' = r.table
    /\ response' = r.response
    /\ request' = Request("buy_ticket", user_id, event_id, 0)
    /\ UNCHANGED <<users, events, sessions>>

ReserveTicket ==
  \E user_id \in UserIds, event_id \in EventIds :
    LET r == reserve_ticket(users, events, tickets, user_id, event_id) IN
    /\ Cardinality(DOMAIN r.table) <= MaxTickets
    /\ tickets' = r.table
    /\ response' = r.response
    /\ request' = Request("reserve_ticket", user_id, event_id, 0)
    /\ UNCHANGED <<users, events, sessions>>

PayTicket ==
  \E ticket_id \in TicketIds :
    LET r == pay_ticket(tickets, ticket_id) IN
    /\ tickets' = r.table
    /\ response' = r.response
    /\ request' = Request("pay_ticket", 0, 0, ticket_id)
    /\ UNCHANGED <<users, events, sessions>>

UseTicket ==
  \E ticket_id \in TicketIds :
    LET r == use_ticket(tickets, ticket_id) IN
    /\ tickets' = r.table
    /\ response' = r.response
    /\ request' = Request("use_ticket", 0, 0, ticket_id)
    /\ UNCHANGED <<users, events, sessions>>

CancelTicket ==
  \E ticket_id \in TicketIds :
    LET r == cancel_ticket(tickets, ticket_id) IN
    /\ tickets' = r.table
    /\ response' = r.response
    /\ request' = Request("cancel_ticket", 0, 0, ticket_id)
    /\ UNCHANGED <<users, events, sessions>>

GetUser ==
  \E user_id \in UserIds :
    LET r == get_user(users, user_id) IN
    /\ response' = r.response
    /\ request' = Request("get_user", user_id, 0, 0)
    /\ UNCHANGED <<users, events, tickets, sessions>>

GetEvent ==
  \E event_id \in EventIds :
    LET r == get_event(events, event_id) IN
    /\ response' = r.response
    /\ request' = Request("get_event", 0, event_id, 0)
    /\ UNCHANGED <<users, events, tickets, sessions>>

ReadRoot ==
  /\ response' = read_root
  /\ request' = Request("read_root", 0, 0, 0)
  /\ UNCHANGED <<users, events, tickets, sessions>>

Next ==
  \/ CreateUser
  \/ CreateEvent
  \/ BuyTicket
  \/ ReserveTicket
  \/ PayTicket
  \/ UseTicket
  \/ CancelTicket
  \/ GetUser
  \/ GetEvent
  \/ ReadRoot

Spec == Init /\ [][Next]_vars

\* ================================================= persistence failures
\* An exception that leaves a handler: the application answers 500 outside
\* the handler and the exception is re-raised to the server.
Unhandled == [status_code |-> 500, content |-> [raised |-> "Exception"]]

\* main.py: create_user when the session raises inside the try block; the
\* username check comes before the first use of the session
create_user_failing(table, username, password) ==
  IF username = ""
  THEN Result(table, JSONResponse(400, Message("Invalid username")))
  ELSE Result(table, JSONResponse(500, Message("Internal server error")))

\* main.py: create_event when session.commit raises; there is no try block
create_event_failing(table, name, price) ==
  IF name = ""
  THEN Result(table, JSONResponse(400, Message("Invalid event name")))
  ELSE Result(table, Unhandled)

\* main.py: buy_ticket, reserve_ticket, pay_ticket, use_ticket and
\* cancel_ticket start with session.get and have no try block
ticket_handler_failing(table) == Result(table, Unhandled)

CreateUserFault ==
  \E username \in Usernames :
    /\ response' = create_user_failing(users, username, "1234").response
    /\ request' = RequestBody("create_user", [username |-> username, password |-> "1234"])
    /\ UNCHANGED <<users, events, tickets, sessions>>

CreateEventFault ==
  \E name \in EventNames :
    /\ response' = create_event_failing(events, name, 100).response
    /\ request' = RequestBody("create_event", [name |-> name, price |-> 100])
    /\ UNCHANGED <<users, events, tickets, sessions>>

CreateTicketFault ==
  \E op \in {"buy_ticket", "reserve_ticket"}, user_id \in UserIds, event_id \in EventIds :
    /\ response' = ticket_handler_failing(tickets).response
    /\ request' = Request(op, user_id, event_id, 0)
    /\ UNCHANGED <<users, events, tickets, sessions>>

LifecycleFault ==
  \E op \in {"pay_ticket", "use_ticket", "cancel_ticket"}, ticket_id \in TicketIds :
    /\ response' = ticket_handler_failing(tickets).response
    /\ request' = Request(op, 0, 0, ticket_id)
    /\ UNCHANGED <<users, events, tickets, sessions>>

NextFault ==
  \/ Next
  \/ CreateUserFault
  \/ CreateEventFault
  \/ CreateTicketFault
  \/ LifecycleFault

SpecFault == Init /\ [][NextFault]_vars

\* ================================================== overlapping requests
\* pay, use and cancel are coroutines: each suspends at
\* "await session.get(...)" and at "await session.commit()", so the requests
\* of two workers interleave at these points. Every request has its own
\* session; the ticket it loaded is its private copy until it commits.
Handler(op, table, ticket_id) ==
  IF op = "pay_ticket" THEN pay_ticket(table, ticket_id)
  ELSE IF op = "use_ticket" THEN use_ticket(table, ticket_id)
  ELSE cancel_ticket(table, ticket_id)

\* the rows a session holds: the ticket it loaded, if any
Loaded(session) ==
  IF session.ticket = None THEN <<>>
  ELSE [i \in {session.ticket_id} |-> session.ticket]

\* the store before any overlapping request: one user, one event and up to
\* MaxTickets tickets, each in a status buy, reserve, pay, use and cancel
\* can have left it in
InitConc ==
  /\ users = create_user(<<>>, "Pepito", "1234").table
  /\ events = create_event(<<>>, "TEST_EVENT", 100).table
  /\ \E n \in 1..MaxTickets :
       \E status \in [1..n -> TicketStatus] :
         tickets = [t \in 1..n |-> [Ticket(1, 1, status[t]) EXCEPT !.id = t]]
  /\ request = Request("startup", 0, 0, 0)
  /\ response = JSONResponse(0, Message(""))
  /\ sessions = [p \in Procs |-> Idle]

\* the request reaches its handler
Begin(p) ==
  /\ sessions[p].pc = "idle"
  /\ \E op \in {"pay_ticket", "use_ticket", "cancel_ticket"}, ticket_id \in TicketIds :
       sessions' = [sessions EXCEPT ![p] =
         [pc |-> "get", op |-> op, ticket_id |-> ticket_id, ticket |-> None,
          response |-> JSONResponse(0, Message(""))]]
  /\ UNCHANGED <<users, events, tickets, request, response>>

\* ticket = await session.get(Ticket, ticket_id)
SessionGet(p) ==
  /\ sessions[p].pc = "get"
  /\ sessions' = [sessions EXCEPT ![p].pc = "check",
                                  ![p].ticket = session_get(tickets, sessions[p].ticket_id)]
  /\ UNCHANGED <<users, events, tickets, request, response>>

\* the checks on the loaded ticket, up to the assignment to ticket.status
Check(p) ==
  /\ sessions[p].pc = "check"
  /\ LET s == sessions[p]
         r == Handler(s.op, Loaded(s), s.ticket_id) IN
     sessions' = [sessions EXCEPT ![p] =
       IF r.response.status_code = 200
       THEN [s EXCEPT !.pc = "commit", !.ticket = r.table[s.ticket_id]]
       ELSE [s EXCEPT !.pc = "done", !.response = r.response]]
  /\ UNCHANGED <<users, events, tickets, request, response>>

\* variant of Commit that writes only if the stored status is still the one
\* the request has read (here: the stored status is not terminal)
Commit_compare_and_swap(p) ==
  /\ sessions[p].pc = "commit"
  /\ IF tickets[sessions[p].ticket_id].status \in {USED, CANCELED}
     THEN /\ sessions' = [sessions EXCEPT ![p].pc = "done",
                 ![p].response = JSONResponse(400, Message("Ticket has changed"))]
          /\ UNCHANGED tickets
     ELSE /\ tickets' = session_commit(tickets, sessions[p].ticket)
          /\ sessions' = [sessions EXCEPT ![p].pc = "done",
                 ![p].response = JSONResponse(200, sessions[p].ticket)]
  /\ UNCHANGED <<users, events, request, response>>

\* await session.commit(); return JSONResponse(status_code=200, ...)
Commit(p) ==
  /\ sessions[p].pc = "commit"
  /\ tickets' = session_commit(tickets, sessions[p].ticket)
  /\ sessions' = [sessions EXCEPT ![p].pc = "done",
                                  ![p].response = JSONResponse(200, sessions[p].ticket)]
  /\ UNCHANGED <<users, events, request, response>>

\* the response is sent; the worker takes the next request
Return(p) ==
  /\ sessions[p].pc = "done"
  /\ sessions' = [sessions EXCEPT ![p] = Idle]
  /\ UNCHANGED <<users, events, tickets, request, response>>

NextConc ==
  \E p \in Procs :
    \/ Begin(p)
    \/ SessionGet(p)
    \/ Check(p)
    \/ Commit(p)
    \/ Return(p)

SpecConc == InitConc /\ [][NextConc]_vars

\* ======================================= ticket requests, one at a time
\* buy, reserve, pay, use and cancel requests served one after the other on
\* a store that already holds a user, an event and some tickets
NextLifecycle ==
  \/ BuyTicket
  \/ ReserveTicket
  \/ PayTicket
  \/ UseTicket
  \/ CancelTicket

SpecLifecycle == InitConc /\ [][NextLifecycle]_vars

\* ============================================================ properties
\* the step answers request op on a ticket id that resolves to a stored ticket
OnStored(op) ==
  /\ request'.op = op
  /\ request'.ticket_id \in DOMAIN tickets
LifecycleOps == {"pay_ticket", "use_ticket", "cancel_ticket"}
CreateOps == {"buy_ticket", "reserve_ticket"}

\* C1: once a stored ticket is CANCELED or USED, no step changes its status,
\* and a pay, use or cancel request on it is rejected with 400.
C1_TerminalAbsorbing ==
  [][\A t \in DOMAIN tickets :
       tickets[t].status \in {CANCELED, USED} =>
         /\ t \in DOMAIN tickets'
         /\ tickets'[t].status = tickets[t].status
         /\ (request'.op \in LifecycleOps /\ request'.ticket_id = t
               => response'.status_code = 400)]_vars
C1_Witness ==
  /\ request.op = "cancel_ticket"
  /\ response.status_code = 400
  /\ request.ticket_id \in DOMAIN tickets
  /\ tickets[request.ticket_id].status = USED

\* C2: pay on a stored ticket returns 200 and stores PURCHASED exactly when
\* the ticket was RESERVED; otherwise it returns 400 and the status stays.
\* A pay that directly follows a successful pay of the same ticket gets 400.
C2_PayIffReserved ==
  [][OnStored("pay_ticket") =>
       LET t == request'.ticket_id IN
       /\ IF tickets[t].status = RESERVED
          THEN response'.status_code = 200 /\ tickets'[t].status = PURCHASED
          ELSE response'.status_code = 400 /\ tickets'[t].status = tickets[t].status
       /\ (request.op = "pay_ticket" /\ request.ticket_id = t
             /\ response.status_code = 200 => response'.status_code = 400)]_vars
C2_Witness ==
  /\ request.op = "pay_ticket"
  /\ response.status_code = 400
  /\ request.ticket_id \in DOMAIN tickets
  /\ tickets[request.ticket_id].status = PURCHASED

\* C3: use on a stored ticket returns 200 and stores USED exactly when the
\* ticket was PURCHASED; otherwise it is rejected and the status stays.
\* A use that directly follows a successful use of the same ticket is rejected.
C3_UseIffPurchased ==
  [][OnStored("use_ticket") =>
       LET t == request'.ticket_id IN
       /\ IF tickets[t].status = PURCHASED
          THEN response'.status_code = 200 /\ tickets'[t].status = USED
          ELSE response'.status_code # 200 /\ tickets'[t].status = tickets[t].status
       /\ (request.op = "use_ticket" /\ request.ticket_id = t
             /\ response.status_code = 200 => response'.status_code # 200)]_vars
C3_Witness ==
  /\ request.op = "use_ticket"
  /\ response.status_code = 200
  /\ request.ticket_id \in DOMAIN tickets
  /\ tickets[request.ticket_id].status = USED

\* C4: use on a RESERVED ticket returns 402, use on a USED or CANCELED
\* ticket returns 400, and no other request is answered with 402.
C4_UseRejectionCodes ==
  [][/\ OnStored("use_ticket") =>
          LET s == tickets[request'.ticket_id].status IN
          /\ s = RESERVED => response'.status_code = 402
          /\ s \in {USED, CANCELED} => response'.status_code = 400
     /\ response'.status_code = 402 =>
          /\ OnStored("use_ticket")
          /\ tickets[request'.ticket_id].status = RESERVED]_vars
C4_Witness ==
  /\ request.op = "use_ticket"
  /\ response.status_code = 402
  /\ request.ticket_id \in DOMAIN tickets
  /\ tickets[request.ticket_id].status = RESERVED

\* C5: cancel on a stored ticket returns 200 and stores CANCELED from
\* PURCHASED and from RESERVED; from CANCELED and USED it returns 400 and
\* the status stays.
C5_CancelTable ==
  [][OnStored("cancel_ticket") =>
       LET t == request'.ticket_id IN
       IF tickets[t].status \in {PURCHASED, RESERVED}
       THEN response'.status_code = 200 /\ tickets'[t].status = CANCELED
       ELSE response'.status_code = 400 /\ tickets'[t].status = tickets[t].status]_vars
C5_Witness ==
  /\ request.op = "cancel_ticket"
  /\ response.status_code = 200
  /\ request.ticket_id \in DOMAIN tickets
  /\ tickets[request.ticket_id].status = CANCELED

\* C6: buy for a stored user and event adds one ticket with status PURCHASED
\* and returns 201 with the given user_id and event_id; reserve for a stored
\* user and event adds one ticket with status RESERVED.
C6_InitialStatus ==
  [][request'.op \in CreateOps /\ request'.user_id \in DOMAIN users
       /\ request'.event_id \in DOMAIN events =>
       \E id \in DOMAIN tickets' \ DOMAIN tickets :
         /\ DOMAIN tickets' = DOMAIN tickets \cup {id}
         /\ tickets'[id].user_id = request'.user_id
         /\ tickets'[id].event_id = request'.event_id
         /\ IF request'.op = "buy_ticket"
            THEN /\ tickets'[id].status = PURCHASED
                 /\ response'.status_code = 201
                 /\ response'.content.user_id = request'.user_id
                 /\ response'.content.event_id = request'.event_id
            ELSE tickets'[id].status = RESERVED]_vars
C6_Witness ==
  /\ request.op = "buy_ticket"
  /\ response.status_code = 201
  /\ response.content.id \in DOMAIN tickets
  /\ tickets[response.content.id].status = PURCHASED

\* C7: buy and reserve with a user id or an event id (or both) that is not
\* stored return 404 and leave the ticket table as it was.
C7_CreateNotFound ==
  [][request'.op \in CreateOps
       /\ (request'.user_id \notin DOMAIN users \/ request'.event_id \notin DOMAIN events)
       => response'.status_code = 404 /\ tickets' = tickets]_vars
C7_Witness ==
  /\ request.op = "reserve_ticket"
  /\ response.status_code = 404
  /\ request.user_id \in DOMAIN users
  /\ request.event_id \notin DOMAIN events
  /\ tickets # <<>>

\* C8: a reserve for a stored user and a stored event is answered with 201.
C8_ReserveCreated ==
  [][request'.op = "reserve_ticket" /\ request'.user_id \in DOMAIN users
       /\ request'.event_id \in DOMAIN events
       => response'.status_code = 201]_vars

\* C9: pay, use and cancel on a ticket id that is not stored return 404 and
\* leave every stored ticket as it was.
C9_TicketNotFound ==
  [][request'.op \in LifecycleOps /\ request'.ticket_id \notin DOMAIN tickets
       => response'.status_code = 404 /\ tickets' = tickets]_vars
C9_Witness ==
  /\ request.op = "pay_ticket"
  /\ response.status_code = 404
  /\ request.ticket_id \notin DOMAIN tickets
  /\ \E t \in DOMAIN tickets : tickets[t].status = RESERVED

\* C10: every stored ticket has one of the four statuses of TicketStatus.
C10_StatusEnumerated ==
  \A t \in DOMAIN tickets :
    /\ "status" \in DOMAIN tickets[t]
    /\ tickets[t].status \in TicketStatus
C10_Witness ==
  /\ \E t \in DOMAIN tickets : tickets[t].status = USED
  /\ \E t \in DOMAIN tickets : tickets[t].status = CANCELED

\* C11: when persistence fails, no exception leaves a handler, and every
\* 500 response carries the generic message.
C11_FaultsCaught ==
  /\ "raised" \notin DOMAIN response.content
  /\ response.status_code = 500 => response.content = Message("Internal server error")

\* the step adds exactly one row to a table and keeps the rows it had
AddsOne(before, after) ==
  \E id \in DOMAIN after \ DOMAIN before :
    /\ DOMAIN after = DOMAIN before \cup {id}
    /\ \A i \in DOMAIN before : after[i] = before[i]

\* C12: create_user with an empty username and create_event with an empty
\* name return 400 and store nothing; with a non-empty username/name they
\* return 201 and store exactly one new record carrying it.
C12_CreateValidation ==
  [][/\ request'.op = "create_user" =>
          IF request'.body.username = ""
          THEN response'.status_code = 400 /\ users' = users
          ELSE /\ response'.status_code = 201
               /\ AddsOne(users, users')
               /\ users'[response'.content.id].username = request'.body.username
     /\ request'.op = "create_event" =>
          IF request'.body.name = ""
          THEN response'.status_code = 400 /\ events' = events
          ELSE /\ response'.status_code = 201
               /\ AddsOne(events, events')
               /\ events'[response'.content.id].name = request'.body.name]_vars
C12_Witness ==
  /\ request.op = "create_event"
  /\ request.body.name = ""
  /\ response.status_code = 400
  /\ events # <<>>

\* C13: a get_user (get_event) of the id returned by the create_user
\* (create_event) just answered returns 200 with the submitted username
\* (name); a get of an id the store holds returns that row, and a get of an
\* id the store never assigned returns 404.
C13_CreateGetRoundTrip ==
  [][/\ request'.op = "get_user" =>
          /\ (request.op = "create_user" /\ response.status_code = 201
                /\ request'.user_id = response.content.id) =>
               /\ response'.status_code = 200
               /\ response'.content.username = request.body.username
          /\ IF request'.user_id \in DOMAIN users
             THEN response' = JSONResponse(200, users[request'.user_id])
             ELSE response'.status_code = 404
     /\ request'.op = "get_event" =>
          /\ (request.op = "create_event" /\ response.status_code = 201
                /\ request'.event_id = response.content.id) =>
               /\ response'.status_code = 200
               /\ response'.content.name = request.body.name
          /\ IF request'.event_id \in DOMAIN events
             THEN response' = JSONResponse(200, events[request'.event_id])
             ELSE response'.status_code = 404]_vars
C13_Witness ==
  /\ request.op = "get_user"
  /\ response.status_code = 200
  /\ request.user_id \in DOMAIN users
  /\ response.content.username = "Pepito"

\* C14: GET / is answered with 200 and the body {"message": "Working"}.
C14_RootWorking ==
  request.op = "read_root" => response = JSONResponse(200, Message("Working"))

\* C15: a buy, reserve, pay, use or cancel request never touches users or
\* events; answered with a non-2xx code it leaves the ticket table as it was;
\* answered with a 2xx code it adds exactly one ticket (buy, reserve) or
\* changes only the status of exactly one stored ticket (pay, use, cancel).
C15_AtMostOneMutation ==
  [][request'.op \in LifecycleOps \cup CreateOps =>
       /\ users' = users
       /\ events' = events
       /\ IF response'.status_code \notin {200, 201}
          THEN tickets' = tickets
          ELSE IF request'.op \in CreateOps
          THEN AddsOne(tickets, tickets')
          ELSE \E t \in DOMAIN tickets :
                 /\ tickets'[t].status # tickets[t].status
                 /\ tickets' = [tickets EXCEPT ![t].status = tickets'[t].status]]_vars
C15_Witness ==
  /\ request.op = "pay_ticket"
  /\ response.status_code = 200
  /\ Cardinality(DOMAIN tickets) = 2

\* C16: the only status changes of a stored ticket are RESERVED to PURCHASED
\* by pay, PURCHASED to USED by use, and PURCHASED or RESERVED to CANCELED by
\* cancel, each by a request on that ticket; no step moves a stored ticket
\* into RESERVED.
AllowedChanges ==
  { <<"pay_ticket", RESERVED, PURCHASED>>,
    <<"use_ticket", PURCHASED, USED>>,
    <<"cancel_ticket", PURCHASED, CANCELED>>,
    <<"cancel_ticket", RESERVED, CANCELED>> }
C16_OnlyEnumeratedChanges ==
  [][\A t \in DOMAIN tickets :
       /\ t \in DOMAIN tickets'
       /\ tickets'[t].status # tickets[t].status =>
            /\ <<request'.op, tickets[t].status, tickets'[t].status>> \in AllowedChanges
            /\ request'.ticket_id = t
            /\ tickets'[t].status # RESERVED]_vars
C16_Witness ==
  /\ request.op = "cancel_ticket"
  /\ response.status_code = 200
  /\ \E t \in DOMAIN tickets : tickets[t].status = RESERVED
  /\ \E t \in DOMAIN tickets : tickets[t].status = CANCELED

\* C17: a stored ticket keeps its id, user_id and event_id in every step;
\* pay, use and cancel change at most the status of the ticket they name.
C17_ReferencesFrozen ==
  [][\A t \in DOMAIN tickets :
       /\ t \in DOMAIN tickets'
       /\ tickets'[t].id = tickets[t].id
       /\ tickets'[t].user_id = tickets[t].user_id
       /\ tickets'[t].event_id = tickets[t].event_id
       /\ (request'.op \in LifecycleOps /\ request'.ticket_id # t)
            => tickets'[t] = tickets[t]]_vars
C17_Witness ==
  /\ request.op = "pay_ticket"
  /\ response.status_code = 200
  /\ request.ticket_id \in DOMAIN tickets
  /\ tickets[request.ticket_id].user_id # request.ticket_id
  /\ tickets[request.ticket_id].status = PURCHASED

\* C20: with RESERVED < PURCHASED < {USED, CANCELED}, every status change
\* of a stored ticket and every pay/use/cancel answered 200 moves the ticket
\* strictly up, and buy creates the ticket at PURCHASED; so a ticket changes
\* status at most twice (once if bought), never returns to a status it left,
\* and from some point on no pay/use/cancel on it is answered 200.
StatusRank(status) ==
  IF status = RESERVED THEN 0 ELSE IF status = PURCHASED THEN 1 ELSE 2
Succeeds(t) ==
  /\ request'.op \in LifecycleOps
  /\ request'.ticket_id = t
  /\ response'.status_code = 200
C20_FinitelyManySuccesses ==
  /\ [][/\ \A t \in DOMAIN tickets :
             /\ tickets'[t].status # tickets[t].status =>
                  StatusRank(tickets'[t].status) > StatusRank(tickets[t].status)
             /\ Succeeds(t) =>
                  StatusRank(tickets'[t].status) > StatusRank(tickets[t].status)
        /\ \A t \in DOMAIN tickets' \ DOMAIN tickets :
             request'.op = "buy_ticket" => StatusRank(tickets'[t].status) = 1]_vars
  /\ \A t \in 1..MaxTickets : <>[][~Succeeds(t)]_vars
C20_Witness ==
  /\ request.op = "pay_ticket"
  /\ response.status_code = 400
  /\ request.ticket_id \in DOMAIN tickets
  /\ tickets[request.ticket_id].status = USED

\* worker p has answered op on ticket t with 200
Answered200(p, op, t) ==
  /\ sessions[p].pc = "done"
  /\ sessions[p].op = op
  /\ sessions[p].ticket_id = t
  /\ sessions[p].response.status_code = 200

\* C18: overlapping requests are not coordinated: a request that has passed
\* its check writes the status it computed from its own read and returns
\* 200, whatever the stored status is by then; so two use requests that both
\* read PURCHASED both write USED and both return 200.
C18_UncoordinatedCommit ==
  [][\A p \in Procs :
       sessions[p].pc = "commit" /\ sessions'[p].pc = "done" =>
         /\ sessions'[p].response.status_code = 200
         /\ tickets'[sessions[p].ticket_id].status = sessions[p].ticket.status]_vars
C18_Witness ==
  \E t \in DOMAIN tickets :
    /\ Answered200(1, "use_ticket", t)
    /\ Answered200(2, "use_ticket", t)
    /\ tickets[t].status = USED

\* C19: with overlapping use and cancel requests, a stored USED is never
\* overwritten with CANCELED nor a stored CANCELED with USED, and a use and a
\* cancel of the same ticket are never both answered with 200.
C19_TerminalAbsorbingInterleaved ==
  [][/\ \A t \in DOMAIN tickets :
          /\ tickets[t].status = USED => tickets'[t].status # CANCELED
          /\ tickets[t].status = CANCELED => tickets'[t].status # USED
     /\ ~ \E t \in DOMAIN tickets, p, q \in Procs :
            /\ Answered200(p, "use_ticket", t)'
            /\ Answered200(q, "cancel_ticket", t)']_vars

\* C21: a pay, use or cancel request leaves every ticket other than the one
\* it names, every user and every event as they were; no step removes a
\* stored ticket, user or event; and every stored ticket references a
\* stored user and a stored event.
ReferencesStored ==
  \A t \in DOMAIN tickets :
    /\ tickets[t].user_id \in DOMAIN users
    /\ tickets[t].event_id \in DOMAIN events
C21_StoreOnlyGrows ==
  /\ []ReferencesStored
  /\ [][/\ DOMAIN users \subseteq DOMAIN users'
        /\ DOMAIN events \subseteq DOMAIN events'
        /\ DOMAIN tickets \subseteq DOMAIN tickets'
        /\ request'.op \in LifecycleOps =>
             /\ users' = users
             /\ events' = events
             /\ \A t \in DOMAIN tickets \ {request'.ticket_id} :
                  tickets'[t] = tickets[t]]_vars
C21_Witness ==
  /\ request.op = "cancel_ticket"
  /\ response.status_code = 200
  /\ ReferencesStored
  /\ \E t \in DOMAIN tickets \ {request.ticket_id} : tickets[t].status = PURCHASED
====
